---- MODULE Spec2Model ----
(***************************************************************************)
(* Model of robustbench/model_zoo/architectures/dm_wide_resnet.py.         *)
(*                                                                         *)
(* A tensor is abstracted to its shape together with the ordered list of   *)
(* operations (and the parameter objects they use) that produced it from   *)
(* the input.  Two tensors are equal in the model exactly when they have   *)
(* the same shape and were produced by the same operation sequence.  A     *)
(* raised exception is a tensor record whose err field is not empty.       *)
(***************************************************************************)
EXTENDS Integers, Sequences, FiniteSets, TLC

VARIABLES args, net, x, out, stages, sout, blk, bx, frame, grp

vars == <<args, net, x, out, stages, sout, blk, bx, frame, grp>>

(***************************************************************************)
(* Bounds of the explored inputs.                                          *)
(***************************************************************************)
NegDepth == 2
MaxDepth == 16
MaxWidth == 2
MaxPadding == 2
MaxClasses == 2
MaxInCh == 2
MaxBatch == 2
MaxSize == 64
RefSize == 32
MaxStride == 3
MaxPlanes == 2
MaxGroupBlocks == 3
MaxBlockSize == 9

(***************************************************************************)
(* Program constants.                                                      *)
(***************************************************************************)
InitPlanes == 16
DepthOffset == 4
DepthStep == 6
PoolWindow == 8
Kernel3 == 3
Kernel1 == 1

(***************************************************************************)
(* Tensors.                                                                *)
(***************************************************************************)
T(shape, ops) == [err |-> "", shape |-> shape, ops |-> ops]

Err(msg) == [err |-> msg, shape |-> <<>>, ops |-> <<>>]

NoTensor == Err("none")

IsTensor(t) == t.err = ""

Op(name, id, arg) == [op |-> name, id |-> id, arg |-> arg]

StrideError == "ValueError: Unsupported stride."

ShapeError == "RuntimeError: shape"

(***************************************************************************)
(* Modules.  Every module object carries the identity id it was given at   *)
(* construction; sub lists its child modules in registration order.        *)
(***************************************************************************)
Module(cls, id, cin, cout, k, s, p, sub) ==
    [cls |-> cls, id |-> id, cin |-> cin, cout |-> cout,
     k |-> k, s |-> s, p |-> p, has_shortcut |-> FALSE, sub |-> sub]

NoneModule == Module("None", 0, 0, 0, 0, 0, 0, <<>>)

Conv2d(id, cin, cout, k, s, p) == Module("Conv2d", id, cin, cout, k, s, p, <<>>)

BatchNorm2d(id, c) == Module("BatchNorm2d", id, c, c, 0, 0, 0, <<>>)

Activation(id) == Module("Activation", id, 0, 0, 0, 0, 0, <<>>)

Linear(id, cin, cout) == Module("Linear", id, cin, cout, 0, 0, 0, <<>>)

AvgPool2d(id, k) == Module("AvgPool2d", id, 0, 0, k, k, 0, <<>>)

View(id, c) == Module("View", id, 0, c, 0, 0, 0, <<>>)

NormalizeData(id, n) == Module("NormalizeData", id, n, n, 0, 0, 0, <<>>)

Sequential(id, sub) == Module("Sequential", id, 0, 0, 0, 0, 0, sub)

(***************************************************************************)
(* Tensor operations of the runtime, on shapes.                            *)
(***************************************************************************)
\* F.pad(x, (l, r, t, b)): the last dimension grows by l + r, the one before by t + b.
F_pad(t, l, r, tp, b) ==
    IF ~IsTensor(t) THEN t
    ELSE T(<<t.shape[1], t.shape[2], t.shape[3] + tp + b, t.shape[4] + l + r>>,
           Append(t.ops, Op("pad", 0, <<l, r, tp, b>>)))

\* Output length of a convolution or pooling window: floor((n + 2p - k) / s) + 1.
ConvOut(n, k, s, p) == ((n + 2 * p - k) \div s) + 1

conv2d(m, t) ==
    IF ~IsTensor(t) THEN t
    ELSE IF t.shape[2] # m.cin \/ m.s <= 0 THEN Err(ShapeError)
    ELSE IF t.shape[3] + 2 * m.p < m.k \/ t.shape[4] + 2 * m.p < m.k THEN Err(ShapeError)
    ELSE T(<<t.shape[1], m.cout,
             ConvOut(t.shape[3], m.k, m.s, m.p), ConvOut(t.shape[4], m.k, m.s, m.p)>>,
           Append(t.ops, Op("conv2d", m.id, <<m.k, m.s, m.p>>)))

batch_norm(m, t) ==
    IF ~IsTensor(t) THEN t
    ELSE IF t.shape[2] # m.cin THEN Err(ShapeError)
    ELSE T(t.shape, Append(t.ops, Op("batch_norm", m.id, <<>>)))

activation(m, t) ==
    IF ~IsTensor(t) THEN t
    ELSE T(t.shape, Append(t.ops, Op("activation", 0, <<>>)))

avg_pool2d(t, k) ==
    IF ~IsTensor(t) THEN t
    ELSE IF t.shape[3] < k \/ t.shape[4] < k THEN Err(ShapeError)
    ELSE T(<<t.shape[1], t.shape[2],
             ConvOut(t.shape[3], k, k, 0), ConvOut(t.shape[4], k, k, 0)>>,
           Append(t.ops, Op("avg_pool2d", 0, <<k>>)))

\* x.view(-1, c): the element count must divide by c.
view(t, c) ==
    IF ~IsTensor(t) THEN t
    ELSE LET numel == t.shape[1] * t.shape[2] * t.shape[3] * t.shape[4]
         IN IF c <= 0 \/ numel % c # 0 THEN Err(ShapeError)
            ELSE T(<<numel \div c, c>>, Append(t.ops, Op("view", 0, <<0 - 1, c>>)))

linear(m, t) ==
    IF ~IsTensor(t) THEN t
    ELSE IF t.shape[Len(t.shape)] # m.cin THEN Err(ShapeError)
    ELSE T(<<t.shape[1], m.cout>>, Append(t.ops, Op("linear", m.id, <<>>)))

\* Broadcasting of one dimension of two operands; 0 when they cannot be broadcast.
Broadcast(a, b) == IF a = b THEN a ELSE IF a = 1 THEN b ELSE IF b = 1 THEN a ELSE 0

\* (x - mean) / std with mean and std of shape (n, 1, 1).
normalize(n, t) ==
    IF ~IsTensor(t) THEN t
    ELSE IF Broadcast(t.shape[2], n) = 0 THEN Err(ShapeError)
    ELSE T(<<t.shape[1], Broadcast(t.shape[2], n), t.shape[3], t.shape[4]>>,
           Append(t.ops, Op("normalize", 0, <<n>>)))

\* torch.add(a, b) of two 4-d operands, with broadcasting; id names the
\* projection that produced a (0 for the identity shortcut).
add(a, b, id) ==
    IF ~IsTensor(b) THEN b
    ELSE IF ~IsTensor(a) THEN a
    ELSE IF \E i \in 1..4 : Broadcast(a.shape[i], b.shape[i]) = 0 THEN Err(ShapeError)
    ELSE T([i \in 1..4 |-> Broadcast(a.shape[i], b.shape[i])],
           Append(b.ops, Op("add", id, <<>>)))

(***************************************************************************)
(* The Python idiom (c and a or b): a when c holds and a is truthy, else b. *)
(***************************************************************************)
AndOr(c, a, b) == IF c /\ a # 0 THEN a ELSE b

(***************************************************************************)
(* _Block                                                                  *)
(***************************************************************************)
\* _Block.__init__: the block object gets id, its layers id + 1 .. id + 7.
Block_init(id, in_planes, out_planes, stride) ==
    [cls |-> "_Block", id |-> id, cin |-> in_planes, cout |-> out_planes,
     k |-> 0, s |-> stride, p |-> 0,
     has_shortcut |-> (in_planes # out_planes),
     sub |-> << BatchNorm2d(id + 1, in_planes),
                Activation(id + 2),
                Conv2d(id + 3, in_planes, out_planes, Kernel3, stride, 0),
                BatchNorm2d(id + 4, out_planes),
                Activation(id + 5),
                Conv2d(id + 6, out_planes, out_planes, Kernel3, 1, 1),
                IF in_planes # out_planes
                    THEN Conv2d(id + 7, in_planes, out_planes, Kernel1, stride, 0)
                    ELSE NoneModule >>]

batchnorm_0(b) == b.sub[1]
relu_0(b) == b.sub[2]
conv_0(b) == b.sub[3]
batchnorm_1(b) == b.sub[4]
relu_1(b) == b.sub[5]
conv_1(b) == b.sub[6]
shortcut(b) == b.sub[7]

\* Lines 97-102 of _Block.forward with the final else dropped: any other
\* stride goes on unpadded.
BlockPadNoRaise(b, v) ==
    IF ~IsTensor(v) THEN v
    ELSE IF b.s = 1 THEN F_pad(v, 1, 1, 1, 1)
    ELSE IF b.s = 2 THEN F_pad(v, 0, 1, 0, 1)
    ELSE v

\* Lines 97-102 of _Block.forward: the manual padding chosen by the stride.
BlockPad(b, v) ==
    IF ~IsTensor(v) THEN v
    ELSE IF b.s = 1 THEN F_pad(v, 1, 1, 1, 1)
    ELSE IF b.s = 2 THEN F_pad(v, 0, 1, 0, 1)
    ELSE Err(StrideError)

\* The local values of one call of _Block.forward: x after line 93, the
\* padded v, conv_0's output, the main path's out before the sum, the
\* shortcut operand of the sum, and the returned value.
Block_locals(b, t) ==
    LET pre == activation(relu_0(b), batch_norm(batchnorm_0(b), t))
        x1 == IF b.has_shortcut THEN pre ELSE t
        v == BlockPad(b, pre)
        c0 == conv2d(conv_0(b), v)
        main == conv2d(conv_1(b), activation(relu_1(b), batch_norm(batchnorm_1(b), c0)))
        sc == IF ~IsTensor(main) THEN main
              ELSE IF b.has_shortcut THEN conv2d(shortcut(b), x1)
              ELSE x1
    IN [x |-> t, v |-> v, c0 |-> c0, main |-> main, sc |-> sc,
        result |-> add(sc, main, IF b.has_shortcut THEN shortcut(b).id ELSE 0)]

Block_forward(b, t) == Block_locals(b, t).result

NoFrame ==
    [x |-> NoTensor, v |-> NoTensor, c0 |-> NoTensor, main |-> NoTensor,
     sc |-> NoTensor, result |-> NoTensor]

(***************************************************************************)
(* _BlockGroup                                                             *)
(***************************************************************************)
\* range(num_blocks) is empty for num_blocks <= 0.
Range(n) == 0..(n - 1)

\* _BlockGroup.__init__: the group object gets id, its inner Sequential
\* id + 1, and block i the ids from id + 2 + 8 * i.  The fields k, cin,
\* cout and s of the group record keep the arguments of the call.
BlockGroup_init(id, num_blocks, in_planes, out_planes, stride) ==
    [cls |-> "_BlockGroup", id |-> id, cin |-> in_planes, cout |-> out_planes,
     k |-> num_blocks, s |-> stride, p |-> 0, has_shortcut |-> FALSE,
     sub |-> << Sequential(id + 1,
                  [j \in 1..Cardinality(Range(num_blocks)) |->
                     Block_init(id + 2 + 8 * (j - 1),
                                AndOr(j - 1 = 0, in_planes, out_planes),
                                out_planes,
                                AndOr(j - 1 = 0, stride, 1))]) >>]

\* group.block, the nn.Sequential holding the blocks.
block(g) == g.sub[1]

\* The ids a group of n blocks takes.
GroupIds(n) == 2 + 8 * Cardinality(Range(n))

(***************************************************************************)
(* Module application (nn.Module.__call__), by class.                      *)
(***************************************************************************)
RECURSIVE Module_forward(_, _)
RECURSIVE Sequential_forward(_, _, _)

\* nn.Sequential.forward from child i on.
Sequential_forward(sub, i, t) ==
    IF i > Len(sub) THEN t
    ELSE Sequential_forward(sub, i + 1, Module_forward(sub[i], t))

Module_forward(m, t) ==
    IF ~IsTensor(t) THEN t
    ELSE CASE m.cls = "Conv2d" -> conv2d(m, t)
           [] m.cls = "BatchNorm2d" -> batch_norm(m, t)
           [] m.cls = "Activation" -> activation(m, t)
           [] m.cls = "Linear" -> linear(m, t)
           [] m.cls = "AvgPool2d" -> avg_pool2d(t, m.k)
           [] m.cls = "View" -> view(t, m.cout)
           [] m.cls = "NormalizeData" -> normalize(m.cin, t)
           [] m.cls = "_Block" -> Block_forward(m, t)
           [] m.cls = "_BlockGroup" -> Module_forward(block(m), t)
           [] m.cls = "Sequential" -> Sequential_forward(m.sub, 1, t)
           [] OTHER -> Err("TypeError: not callable")

\* _BlockGroup.forward
BlockGroup_forward(g, t) == Module_forward(block(g), t)

(***************************************************************************)
(* DMWideResNet                                                            *)
(***************************************************************************)
\* A network object; built lists the attributes __init__ has assigned, in
\* order, and err the exception __init__ ended with ("" when it returned).
NetObject(err, built, a, num_channels, init_conv, layer, batchnorm, relu, logits, next_id) ==
    [err |-> err, built |-> built, padding |-> a.padding,
     mean |-> a.num_input_channels, num_channels |-> num_channels,
     init_conv |-> init_conv, layer |-> layer, batchnorm |-> batchnorm,
     relu |-> relu, logits |-> logits, next_id |-> next_id]

NoNet ==
    [err |-> "none", built |-> <<>>, padding |-> 0, mean |-> 0, num_channels |-> 0,
     init_conv |-> NoneModule, layer |-> NoneModule, batchnorm |-> NoneModule,
     relu |-> NoneModule, logits |-> NoneModule, next_id |-> 0]

NoArgs ==
    [num_classes |-> 0, depth |-> 0, width |-> 0, mean_len |-> 0,
     padding |-> 0, num_input_channels |-> 0]

\* num_channels = [16, 16 * width, 32 * width, 64 * width], indexed from 0.
num_channels(width, i) ==
    IF i = 0 THEN InitPlanes
    ELSE IF i = 1 THEN InitPlanes * width
    ELSE IF i = 2 THEN 2 * InitPlanes * width
    ELSE 4 * InitPlanes * width

\* assert (depth - 4) % 6 == 0
DepthOk(depth) == (depth - DepthOffset) % DepthStep = 0

\* num_blocks = (depth - 4) // 6
NumBlocks(depth) == (depth - DepthOffset) \div DepthStep

\* DMWideResNet.__init__.  Object ids are handed out in construction order:
\* init_conv 1, the outer Sequential 2, then the three groups, then
\* batchnorm, relu and logits.
DMWideResNet_init(a) ==
    IF a.mean_len # a.num_input_channels
        THEN [NoNet EXCEPT !.err = ShapeError]
    ELSE IF ~DepthOk(a.depth)
        THEN [NoNet EXCEPT !.err = "AssertionError",
                           !.built = <<"mean", "std", "padding">>,
                           !.padding = a.padding,
                           !.mean = a.num_input_channels]
    ELSE LET n == NumBlocks(a.depth)
             g1 == 3
             g2 == g1 + GroupIds(n)
             g3 == g2 + GroupIds(n)
             h == g3 + GroupIds(n)
         IN NetObject("",
                <<"mean", "std", "padding", "init_conv", "layer",
                  "batchnorm", "relu", "logits", "num_channels">>,
                a,
                num_channels(a.width, 3),
                Conv2d(1, a.num_input_channels, num_channels(a.width, 0), Kernel3, 1, 1),
                Sequential(2,
                    << BlockGroup_init(g1, n, num_channels(a.width, 0),
                                       num_channels(a.width, 1), 1),
                       BlockGroup_init(g2, n, num_channels(a.width, 1),
                                       num_channels(a.width, 2), 2),
                       BlockGroup_init(g3, n, num_channels(a.width, 2),
                                       num_channels(a.width, 3), 2) >>),
                BatchNorm2d(h, num_channels(a.width, 3)),
                Activation(h + 1),
                Linear(h + 2, num_channels(a.width, 3), a.num_classes),
                h + 3)

Constructed(n) == n.err = ""

\* Lines 178-179 with the padding applied to the width only.
ForwardPadWidthOnly(n, t) ==
    IF n.padding > 0 THEN F_pad(t, n.padding, n.padding, 0, 0) ELSE t

\* Lines 178-179 of DMWideResNet.forward.
ForwardPad(n, t) ==
    IF n.padding > 0 THEN F_pad(t, n.padding, n.padding, n.padding, n.padding) ELSE t

\* DMWideResNet.forward
forward(n, t) ==
    LET p == ForwardPad(n, t)
        o1 == normalize(n.mean, p)
        o2 == Module_forward(n.init_conv, o1)
        o3 == Module_forward(n.layer, o2)
        o4 == activation(n.relu, batch_norm(n.batchnorm, o3))
        o5 == avg_pool2d(o4, PoolWindow)
        o6 == view(o5, n.num_channels)
    IN linear(n.logits, o6)

\* The blocks of groups i.. of the outer Sequential, in order, appended to layers.
RECURSIVE AppendBlocks(_, _, _)
AppendBlocks(layers, groups, i) ==
    IF i > Len(groups) THEN layers
    ELSE AppendBlocks(layers \o block(groups[i]).sub, groups, i + 1)

\* get_lipschitz_layers with the groups walked last to first.
LipschitzLayersReversed(n) ==
    LET first == Sequential(n.next_id + 1,
                     <<NormalizeData(n.next_id, n.mean), n.init_conv>>)
        final_layer == Sequential(n.next_id + 4,
                           << n.batchnorm, n.relu,
                              AvgPool2d(n.next_id + 2, PoolWindow),
                              View(n.next_id + 3, n.num_channels),
                              n.logits >>)
        rev == [i \in 1..Len(n.layer.sub) |-> n.layer.sub[Len(n.layer.sub) + 1 - i]]
    IN Append(AppendBlocks(<<first>>, rev, 1), final_layer)

\* DMWideResNet.get_lipschitz_layers.  The wrappers it creates (two
\* Sequential, NormalizeData, AvgPool2d, View) are new objects.
get_lipschitz_layers(n) ==
    LET first == Sequential(n.next_id + 1,
                     <<NormalizeData(n.next_id, n.mean), n.init_conv>>)
        final_layer == Sequential(n.next_id + 4,
                           << n.batchnorm, n.relu,
                              AvgPool2d(n.next_id + 2, PoolWindow),
                              View(n.next_id + 3, n.num_channels),
                              n.logits >>)
    IN Append(AppendBlocks(<<first>>, n.layer.sub, 1), final_layer)

\* The stages applied one after another, in the returned order.
Compose(layers, t) == Sequential_forward(layers, 1, t)

(***************************************************************************)
(* Inputs.                                                                 *)
(***************************************************************************)
Input(b, c, h, w) == T(<<b, c, h, w>>, <<>>)

ArgSet ==
    [num_classes : {MaxClasses},
     depth : (0 - NegDepth)..MaxDepth,
     width : {1, MaxWidth},
     mean_len : 1..MaxInCh,
     padding : 0..MaxPadding,
     num_input_channels : 1..MaxInCh]

NetInputs(n) ==
    {Input(b, n.mean, h, w) : b \in 1..MaxBatch, h \in 1..MaxSize, w \in {RefSize}}
    \cup {Input(b, n.mean, h, h) : b \in 1..MaxBatch, h \in 1..MaxSize}

BlockInputs ==
    {Input(1, c, h, w) : c \in 1..MaxPlanes, h \in 1..MaxBlockSize, w \in 1..MaxBlockSize}

(***************************************************************************)
(* The network: construction, a forward call, the stage decomposition and  *)
(* its application to the same input.                                      *)
(***************************************************************************)
NoBlockVars ==
    /\ blk = NoneModule
    /\ bx = NoTensor
    /\ frame = NoFrame
    /\ grp = NoneModule

NoNetVars ==
    /\ args = NoArgs
    /\ net = NoNet
    /\ x = NoTensor
    /\ out = NoTensor
    /\ stages = <<>>
    /\ sout = NoTensor

Init == NoNetVars /\ NoBlockVars

Construct ==
    /\ net = NoNet
    /\ \E a \in ArgSet :
          /\ args' = a
          /\ net' = DMWideResNet_init(a)
    /\ UNCHANGED <<x, out, stages, sout, blk, bx, frame, grp>>

Forward ==
    /\ Constructed(net)
    /\ x = NoTensor
    /\ \E t \in NetInputs(net) :
          /\ x' = t
          /\ out' = forward(net, t)
    /\ UNCHANGED <<args, net, stages, sout, blk, bx, frame, grp>>

GetLipschitzLayers ==
    /\ Constructed(net)
    /\ stages' = get_lipschitz_layers(net)
    /\ UNCHANGED <<args, net, x, out, sout, blk, bx, frame, grp>>

ApplyStages ==
    /\ stages # <<>>
    /\ x # NoTensor
    /\ sout = NoTensor
    /\ sout' = Compose(stages, x)
    /\ UNCHANGED <<args, net, x, out, stages, blk, bx, frame, grp>>

Next == Construct \/ Forward \/ GetLipschitzLayers \/ ApplyStages

Spec == Init /\ [][Next]_vars

(***************************************************************************)
(* A single residual block: construction and one forward call.             *)
(***************************************************************************)
BlockConstruct ==
    /\ blk = NoneModule
    /\ \E i \in 1..MaxPlanes, o \in 1..MaxPlanes, s \in 0..MaxStride :
          blk' = Block_init(1, i, o, s)
    /\ UNCHANGED <<args, net, x, out, stages, sout, bx, frame, grp>>

BlockForward ==
    /\ blk # NoneModule
    /\ bx = NoTensor
    /\ \E t \in BlockInputs :
          /\ bx' = t
          /\ frame' = Block_locals(blk, t)
    /\ UNCHANGED <<args, net, x, out, stages, sout, blk, grp>>

NextBlock == BlockConstruct \/ BlockForward

SpecBlock == Init /\ [][NextBlock]_vars

(***************************************************************************)
(* A single block group: construction and one forward call.                *)
(***************************************************************************)
GroupConstruct ==
    /\ grp = NoneModule
    /\ \E n \in 0..MaxGroupBlocks, i \in 1..MaxPlanes, o \in 1..MaxPlanes,
          s \in 0..MaxStride :
          grp' = BlockGroup_init(1, n, i, o, s)
    /\ UNCHANGED <<args, net, x, out, stages, sout, blk, bx, frame>>

GroupForward ==
    /\ grp # NoneModule
    /\ bx = NoTensor
    /\ \E t \in BlockInputs :
          /\ bx' = t
          /\ frame' = [NoFrame EXCEPT !.x = t, !.result = BlockGroup_forward(grp, t)]
    /\ UNCHANGED <<args, net, x, out, stages, sout, blk, grp>>

NextGroup == GroupConstruct \/ GroupForward

SpecGroup == Init /\ [][NextGroup]_vars

(***************************************************************************)
(* Properties.                                                             *)
(***************************************************************************)
Ceil(a, b) == (a + b - 1) \div b

Max(a, b) == IF a >= b THEN a ELSE b

\* The blocks of group g of a constructed network.
GroupBlocks(n, g) == block(n.layer.sub[g]).sub

\* The channel count of the tensor that leaves the third group, given the
\* channel count the initial convolution produces.
LeavingChannels(n) ==
    LET after(c, g) == IF Len(GroupBlocks(n, g)) = 0 THEN c
                       ELSE GroupBlocks(n, g)[Len(GroupBlocks(n, g))].cout
    IN after(after(after(n.init_conv.cout, 1), 2), 3)

\* C1: once forward and the composition of the stages returned by
\* get_lipschitz_layers() have both run on the same input, their results
\* are the same (same shape, same operation sequence, same parameters).
C1_StagesReproduceForward ==
    (x # NoTensor /\ sout # NoTensor) => sout = out

\* C1 restricted to networks configured with padding = 0.
C1_HoldsWithoutPadding ==
    (x # NoTensor /\ sout # NoTensor /\ net.padding = 0) => sout = out

\* C2: for every constructed network and every input (B, C, H, W) with
\* C = num_input_channels, forward returns a tensor of shape (B, num_classes).
C2_ForwardShape ==
    (x # NoTensor /\ x.shape[2] = args.num_input_channels)
        => (IsTensor(out) /\ out.shape = <<x.shape[1], args.num_classes>>)

\* C2 restricted to networks with at least one block per group: it still
\* fails, on inputs whose size the window-8 pool does not reduce to 1x1.
C2_ForwardShapeDeepNets ==
    (x # NoTensor /\ x.shape[2] = args.num_input_channels /\ NumBlocks(args.depth) >= 1)
        => (IsTensor(out) /\ out.shape = <<x.shape[1], args.num_classes>>)

\* The inputs on which forward does return (B, num_classes): at least one
\* block per group, and padded height and width multiples of 4 in 32..60.
GoodSize(n) == n % 4 = 0 /\ n >= 4 * PoolWindow /\ n < 8 * PoolWindow

C2_ForwardShapeOnGoodSizes ==
    (/\ x # NoTensor
     /\ NumBlocks(args.depth) >= 1
     /\ GoodSize(x.shape[3] + 2 * args.padding)
     /\ GoodSize(x.shape[4] + 2 * args.padding))
        => (IsTensor(out) /\ out.shape = <<x.shape[1], args.num_classes>>)

\* C3: a depth with (depth - 4) mod 6 # 0 fails at construction before the
\* initial convolution, any group or the head is built; every other depth
\* is constructed and each of the three groups gets exactly (depth - 4) / 6
\* blocks.
C3_DepthCheck ==
    (args # NoArgs /\ args.mean_len = args.num_input_channels)
        => IF (args.depth - 4) % 6 # 0
           THEN /\ net.err = "AssertionError"
                /\ \A i \in 1..Len(net.built) :
                      net.built[i] \notin {"init_conv", "layer", "batchnorm", "logits"}
                /\ net.init_conv = NoneModule /\ net.layer = NoneModule
                /\ net.logits = NoneModule
           ELSE /\ Constructed(net)
                /\ \A g \in 1..3 : Len(GroupBlocks(net, g)) = (args.depth - 4) \div 6

\* The rejection half of C3 alone, and the block count as the code gives it.
C3_RejectsAndCounts ==
    (args # NoArgs /\ args.mean_len = args.num_input_channels)
        => IF (args.depth - 4) % 6 # 0
           THEN /\ net.err = "AssertionError"
                /\ net.init_conv = NoneModule /\ net.layer = NoneModule
                /\ net.logits = NoneModule
           ELSE /\ Constructed(net)
                /\ \A g \in 1..3 :
                      Len(GroupBlocks(net, g)) = Max(0, (args.depth - 4) \div 6)

\* C4: a block whose stride is neither 1 nor 2 never returns an output from
\* forward, and on an input of the block's channel count the call ends in
\* the unsupported-stride error; a block with stride 1 or 2 never raises
\* that error.
C4_UnsupportedStride ==
    (blk # NoneModule /\ bx # NoTensor)
        => /\ (blk.s \notin {1, 2}) =>
                 /\ ~IsTensor(frame.result)
                 /\ (bx.shape[2] = blk.cin => frame.result.err = StrideError)
           /\ (blk.s \in {1, 2}) => frame.result.err # StrideError

C4_Witness ==
    /\ blk # NoneModule /\ bx # NoTensor
    /\ blk.s = 3 /\ bx.shape[2] = blk.cin
    /\ frame.result.err = StrideError

\* C5: in every block with stride 1 or 2, on every input size, the shortcut
\* operand and the main-path operand of the sum have the same shape.
C5_SumOperandShapes ==
    (/\ blk # NoneModule /\ bx # NoTensor
     /\ blk.s \in {1, 2}
     /\ IsTensor(frame.main) /\ IsTensor(frame.sc))
        => frame.sc.shape = frame.main.shape

\* C8: for every input height and width H >= 1, the size after the manual
\* pad and conv_0 is ceil(H / stride).
C8_SamePadding ==
    (/\ blk # NoneModule /\ bx # NoTensor
     /\ blk.s \in {1, 2}
     /\ bx.shape[2] = blk.cin)
        => /\ IsTensor(frame.c0)
           /\ frame.c0.shape[3] = Ceil(bx.shape[3], blk.s)
           /\ frame.c0.shape[4] = Ceil(bx.shape[4], blk.s)

\* C8 on even sizes and on stride 1, where the manual pad does give
\* ceil(H / stride).
C8_SamePaddingEven ==
    (/\ blk # NoneModule /\ bx # NoTensor
     /\ blk.s \in {1, 2}
     /\ bx.shape[2] = blk.cin
     /\ (blk.s = 2 => (bx.shape[3] % 2 = 0 /\ bx.shape[4] % 2 = 0)))
        => /\ IsTensor(frame.c0)
           /\ frame.c0.shape[3] = Ceil(bx.shape[3], blk.s)
           /\ frame.c0.shape[4] = Ceil(bx.shape[4], blk.s)

\* The blocks of a group applied in index order from block i on.
RECURSIVE InOrder(_, _, _)
InOrder(bs, i, t) ==
    IF i > Len(bs) THEN t ELSE InOrder(bs, i + 1, Block_forward(bs[i], t))

\* C9: a group built with (N, in_planes, out_planes, stride) holds exactly N
\* blocks; block 0 is (in_planes -> out_planes, the group's stride), every
\* later block (out_planes -> out_planes, stride 1), each block's input
\* channel count is the previous block's output channel count, and forward
\* applies the blocks in index order.
C9_GroupLayout ==
    (grp # NoneModule)
        => LET bs == block(grp).sub
           IN /\ Len(bs) = grp.k
              /\ \A j \in 1..Len(bs) :
                    /\ bs[j].cin = (IF j = 1 THEN grp.cin ELSE grp.cout)
                    /\ bs[j].cout = grp.cout
                    /\ bs[j].s = (IF j = 1 THEN grp.s ELSE 1)
                    /\ (j > 1 => bs[j].cin = bs[j - 1].cout)
              /\ (bx # NoTensor => frame.result = InOrder(bs, 1, bx))

\* C9 for groups whose stride argument is not 0.
C9_GroupLayoutNonzeroStride ==
    (grp # NoneModule /\ grp.s # 0)
        => LET bs == block(grp).sub
           IN /\ Len(bs) = grp.k
              /\ \A j \in 1..Len(bs) :
                    /\ bs[j].cin = (IF j = 1 THEN grp.cin ELSE grp.cout)
                    /\ bs[j].cout = grp.cout
                    /\ bs[j].s = (IF j = 1 THEN grp.s ELSE 1)
              /\ (bx # NoTensor => frame.result = InOrder(bs, 1, bx))

\* C10: every accepted depth gives each of the three groups at least one
\* block, so the tensor leaving the third group has the 64 * width channels
\* the final batch normalization and the classifier are built for.
C10_HeadChannels ==
    Constructed(net)
        => /\ \A g \in 1..3 : Len(GroupBlocks(net, g)) >= 1
           /\ LeavingChannels(net) = net.batchnorm.cin
           /\ LeavingChannels(net) = net.logits.cin
           /\ net.batchnorm.cin = 64 * args.width

\* The ids of a module and of everything below it.
RECURSIVE Ids(_)
Ids(m) == {m.id} \cup UNION {Ids(m.sub[i]) : i \in 1..Len(m.sub)}

\* C6: get_lipschitz_layers() returns 3 * num_blocks + 2 stages: the fused
\* normalization + initial convolution, then the blocks of groups 1, 2, 3 in
\* forward order, then the fused batchnorm, activation, window-8 pool,
\* flatten and classifier; blocks and parameterized layers are the
\* network's own objects, the wrappers are new ones, and the network is
\* left as constructed.
C6_StageLayout ==
    (stages # <<>>)
        => LET nb == Max(0, (args.depth - 4) \div 6)
               first == stages[1]
               last == stages[Len(stages)]
           IN /\ Len(stages) = 3 * nb + 2
              /\ first.cls = "Sequential" /\ Len(first.sub) = 2
              /\ first.sub[1].cls = "NormalizeData"
              /\ first.sub[1].cin = args.num_input_channels
              /\ first.sub[2] = net.init_conv
              /\ \A g \in 1..3 : \A j \in 1..nb :
                    stages[1 + (g - 1) * nb + j] = GroupBlocks(net, g)[j]
              /\ last.cls = "Sequential" /\ Len(last.sub) = 5
              /\ last.sub[1] = net.batchnorm
              /\ last.sub[2] = net.relu
              /\ last.sub[3].cls = "AvgPool2d" /\ last.sub[3].k = 8
              /\ last.sub[4].cls = "View" /\ last.sub[4].cout = 64 * args.width
              /\ last.sub[5] = net.logits
              /\ {first.id, first.sub[1].id, last.id, last.sub[3].id, last.sub[4].id}
                    \cap (Ids(net.init_conv) \cup Ids(net.layer) \cup Ids(net.batchnorm)
                          \cup Ids(net.relu) \cup Ids(net.logits)) = {}
              /\ \A i \in 1..Len(stages) : \A j \in 1..Len(stages) :
                    (i # j) => stages[i].id # stages[j].id
              /\ net = DMWideResNet_init(args)

C6_Witness ==
    /\ stages # <<>>
    /\ Len(stages) = 8
    /\ stages[4] = GroupBlocks(net, 2)[1]
    /\ stages[4] # stages[2]

\* C7: forward on a network configured with padding p > 0 equals forward on
\* the same network configured with padding 0 applied to the input
\* zero-padded by p on all four sides; the padding is the first operation,
\* before the normalization, and a network with padding 0 starts with the
\* normalization.
C7_PaddingEquivalence ==
    (Constructed(net) /\ x # NoTensor)
        => LET p == args.padding
               net0 == DMWideResNet_init([args EXCEPT !.padding = 0])
           IN /\ (p > 0) =>
                    /\ out = forward(net0, F_pad(x, p, p, p, p))
                    /\ IsTensor(out) =>
                          /\ out.ops[1] = Op("pad", 0, <<p, p, p, p>>)
                          /\ out.ops[2].op = "normalize"
              /\ (p = 0 /\ IsTensor(out)) => out.ops[1].op = "normalize"

C7_Witness ==
    /\ Constructed(net) /\ x # NoTensor
    /\ args.padding = 2
    /\ IsTensor(out)
    /\ out.shape = <<x.shape[1], args.num_classes>>

====
